---- MODULE Spec2Model ----
(***************************************************************************)
(* Model of python_service/music_processor.py (class MusicProcessor): the  *)
(* SATB voice classifier (_detect_voice_type), the short-score voice       *)
(* extraction (_extract_voice_as_part), the analysis pass                  *)
(* (analyze_musicxml) and the per-voice decomposition                      *)
(* (generate_midi_files).                                                  *)
(*                                                                         *)
(* Conventions.  A Python str is a sequence of one-character strings.  An  *)
(* Optional value is a sequence: <<>> is None, <<v>> or <<lo, hi>> is a    *)
(* value.  A float compared against a ratio of integers is a pair          *)
(* <<numerator, denominator>> with a positive denominator.                 *)
(***************************************************************************)
EXTENDS Integers, Sequences, FiniteSets

VARIABLES
    VOICE_RANGES,       \* self.VOICE_RANGES: category -> <<lo, hi>>
    OVERLAP_THRESHOLD,  \* self.OVERLAP_THRESHOLD as <<num, den>>
    score,              \* the parsed score: a sequence of parts
    call,               \* the last direct call of _detect_voice_type
    extracted,          \* the last result of _extract_voice_as_part
    analysis,           \* the last result of analyze_musicxml
    midi                \* the last result of generate_midi_files

vars == <<VOICE_RANGES, OVERLAP_THRESHOLD, score, call, extracted, analysis, midi>>

(***************************************************************************)
(* class VoiceType and the iteration order of the VOICE_RANGES dict.       *)
(***************************************************************************)
VoiceType_SOPRANO == "soprano"
VoiceType_ALTO == "alto"
VoiceType_TENOR == "tenor"
VoiceType_BASS == "bass"
VoiceType_OTHER == "other"

VALID_VOICE_TYPES == {VoiceType_SOPRANO, VoiceType_ALTO, VoiceType_TENOR, VoiceType_BASS, VoiceType_OTHER}

VoiceOrder == <<VoiceType_SOPRANO, VoiceType_ALTO, VoiceType_TENOR, VoiceType_BASS>>

satb_voices == {VoiceType_SOPRANO, VoiceType_ALTO, VoiceType_TENOR, VoiceType_BASS}

None == <<>>

(***************************************************************************)
(* Construction: __init__ reads four range strings and the threshold from  *)
(* the environment.  A range string is modelled by its comma-separated     *)
(* fields; a field either parses with int() or does not.                   *)
(***************************************************************************)
Field(n) == [num |-> TRUE, val |-> n]
BadField == [num |-> FALSE, val |-> 0]

_parse_range(range_str) ==
    IF Len(range_str) >= 1 /\ range_str[1].num
       /\ Len(range_str) >= 2 /\ range_str[2].num
    THEN <<range_str[1].val, range_str[2].val>>
    ELSE <<0, 127>>

DefaultEnv ==
    [SOPRANO_RANGE |-> <<Field(60), Field(81)>>,
     ALTO_RANGE    |-> <<Field(55), Field(74)>>,
     TENOR_RANGE   |-> <<Field(48), Field(67)>>,
     BASS_RANGE    |-> <<Field(40), Field(60)>>,
     VOICE_OVERLAP_THRESHOLD |-> <<3, 10>>]

\* The environments the model constructs the processor under: the defaults,
\* the wider profile the tests use, an override that gives two categories
\* one range, a malformed value, and a raised threshold.  The threshold is
\* float(VOICE_OVERLAP_THRESHOLD) as a ratio.
Envs ==
    { DefaultEnv,
      [DefaultEnv EXCEPT !.ALTO_RANGE  = <<Field(55), Field(76)>>,
                         !.TENOR_RANGE = <<Field(48), Field(69)>>,
                         !.BASS_RANGE  = <<Field(40), Field(64)>>],
      [DefaultEnv EXCEPT !.ALTO_RANGE  = <<Field(60), Field(81)>>],
      [DefaultEnv EXCEPT !.TENOR_RANGE = <<Field(48), BadField>>],
      [DefaultEnv EXCEPT !.VOICE_OVERLAP_THRESHOLD = <<1, 2>>] }

InitRanges(env) ==
    [v \in satb_voices |->
        CASE v = VoiceType_SOPRANO -> _parse_range(env.SOPRANO_RANGE)
          [] v = VoiceType_ALTO    -> _parse_range(env.ALTO_RANGE)
          [] v = VoiceType_TENOR   -> _parse_range(env.TENOR_RANGE)
          [] v = VoiceType_BASS    -> _parse_range(env.BASS_RANGE)]

DefaultRanges == InitRanges(DefaultEnv)

InitProcessor ==
    \E env \in Envs :
        /\ VOICE_RANGES = InitRanges(env)
        /\ OVERLAP_THRESHOLD = env.VOICE_OVERLAP_THRESHOLD

(***************************************************************************)
(* Characters, str.lower(), str.strip() and the regular expressions of     *)
(* _detect_voice_type.                                                     *)
(***************************************************************************)
UpperCase == <<"A", "B", "C", "D", "E", "F", "G", "H", "I", "J", "K", "L", "M",
               "N", "O", "P", "Q", "R", "S", "T", "U", "V", "W", "X", "Y", "Z">>
LowerCase == <<"a", "b", "c", "d", "e", "f", "g", "h", "i", "j", "k", "l", "m",
               "n", "o", "p", "q", "r", "s", "t", "u", "v", "w", "x", "y", "z">>
Digits == <<"0", "1", "2", "3", "4", "5", "6", "7", "8", "9">>

Range(s) == { s[i] : i \in DOMAIN s }

WordChars == Range(UpperCase) \cup Range(LowerCase) \cup Range(Digits) \cup {"_"}
WhiteSpace == {" ", "\t", "\n"}

LowerChar(c) ==
    IF \E i \in DOMAIN UpperCase : UpperCase[i] = c
    THEN LowerCase[CHOOSE i \in DOMAIN UpperCase : UpperCase[i] = c]
    ELSE c

lower(s) == [i \in DOMAIN s |-> LowerChar(s[i])]

strip(s) ==
    LET keep == { i \in DOMAIN s : s[i] \notin WhiteSpace }
    IN  IF keep = {} THEN <<>>
        ELSE LET first == CHOOSE i \in keep : \A j \in keep : i <= j
                 last  == CHOOSE i \in keep : \A j \in keep : j <= i
             IN  SubSeq(s, first, last)

\* Whether position i of s (1..Len(s)) holds a \w character; positions
\* outside the string do not.
IsWordAt(s, i) == i \in DOMAIN s /\ s[i] \in WordChars

\* \b between s[i-1] and s[i].
WordBoundary(s, i) == IsWordAt(s, i - 1) # IsWordAt(s, i)

MatchAt(kw, s, i) ==
    /\ i + Len(kw) - 1 <= Len(s)
    /\ \A k \in DOMAIN kw : s[i + k - 1] = kw[k]

\* re.search(r'\bkw\b', s)
SearchWord(kw, s) ==
    \E i \in DOMAIN s :
        /\ MatchAt(kw, s, i)
        /\ WordBoundary(s, i)
        /\ WordBoundary(s, i + Len(kw))

\* re.search(r'^c(?=[.\d]|$)', s)
SearchLead(c, s) ==
    /\ Len(s) >= 1
    /\ s[1] = c
    /\ (Len(s) = 1 \/ s[2] \in ({"."} \cup Range(Digits)))

Word(kw) == [kind |-> "word", kw |-> kw]
Lead(c) == [kind |-> "lead", kw |-> <<c>>]

re_search(p, s) ==
    IF p.kind = "word" THEN SearchWord(p.kw, s) ELSE SearchLead(p.kw[1], s)

soprano_patterns ==
    << Word(<<"s", "o", "p", "r", "a", "n", "o">>),
       Word(<<"s", "o", "p">>),
       Word(<<"s", "o", "p", "r">>),
       Lead("s") >>

alto_patterns ==
    << Word(<<"a", "l", "t", "o">>),
       Word(<<"a", "l", "t">>),
       Word(<<"c", "o", "n", "t", "r">>),
       Word(<<"c", "o", "u", "n", "t", "e", "r">>),
       Lead("a") >>

tenor_patterns ==
    << Word(<<"t", "e", "n", "o", "r">>),
       Word(<<"t", "e", "n">>),
       Lead("t") >>

bass_patterns ==
    << Word(<<"b", "a", "s", "s">>),
       Word(<<"b", "a", "s">>),
       Word(<<"b", "a", "r", "i">>),
       Word(<<"b", "a", "r", "i", "t", "o", "n", "e">>),
       Word(<<"b", "a", "r">>),
       Lead("b") >>

\* any(re.search(p, part_name_lower) for p in patterns)
AnySearch(patterns, s) == \E i \in DOMAIN patterns : re_search(patterns[i], s)

PatternsOf(v) ==
    CASE v = VoiceType_SOPRANO -> soprano_patterns
      [] v = VoiceType_ALTO    -> alto_patterns
      [] v = VoiceType_TENOR   -> tenor_patterns
      [] v = VoiceType_BASS    -> bass_patterns


(***************************************************************************)
(* _detect_voice_type: the four layers, in the order the code runs them.   *)
(***************************************************************************)

\* 1. Part name: the first category, in the order the code tests them,
\* with a pattern found in the lowered, stripped name.
NameLayer(part_name_lower) ==
    IF AnySearch(soprano_patterns, part_name_lower) THEN <<VoiceType_SOPRANO>>
    ELSE IF AnySearch(alto_patterns, part_name_lower) THEN <<VoiceType_ALTO>>
    ELSE IF AnySearch(tenor_patterns, part_name_lower) THEN <<VoiceType_TENOR>>
    ELSE IF AnySearch(bass_patterns, part_name_lower) THEN <<VoiceType_BASS>>
    ELSE None

\* 2. Stem direction + clef, only with a voice_position.
StemLayer(clef_type, voice_position) ==
    IF voice_position # None
    THEN IF clef_type \in {"treble", "treble8vb", "unknown"}
         THEN IF voice_position[1] = 1
              THEN <<VoiceType_SOPRANO>> ELSE <<VoiceType_ALTO>>
         ELSE IF clef_type = "bass"
         THEN IF voice_position[1] = 1
              THEN <<VoiceType_TENOR>> ELSE <<VoiceType_BASS>>
         ELSE IF clef_type = "tenor_c"
         THEN <<VoiceType_TENOR>>
         ELSE None
    ELSE None

\* a > b for two ratios with positive denominators.
Gt(a, b) == a[1] * b[2] > b[1] * a[2]

max(a, b) == IF a >= b THEN a ELSE b
min(a, b) == IF a <= b THEN a ELSE b

\* A bug the checks are run against: a tie in the score replaces the
\* best match, so that the later category wins.
OverlapStepTieToLater(best, voice_type, pitch_range) ==
    LET overlap_min == max(pitch_range[1], VOICE_RANGES[voice_type][1])
        overlap_max == min(pitch_range[2], VOICE_RANGES[voice_type][2])
        sc == <<overlap_max - overlap_min, pitch_range[2] - pitch_range[1] + 1>>
    IN  IF overlap_max >= overlap_min /\ ~Gt(best.best_score, sc)
        THEN [best_match |-> voice_type, best_score |-> sc]
        ELSE best

\* One iteration of the loop over self.VOICE_RANGES.items().
OverlapStep(best, voice_type, pitch_range) ==
    LET min_pitch == pitch_range[1]
        max_pitch == pitch_range[2]
        voice_min == VOICE_RANGES[voice_type][1]
        voice_max == VOICE_RANGES[voice_type][2]
        overlap_min == max(min_pitch, voice_min)
        overlap_max == min(max_pitch, voice_max)
        overlap_range == overlap_max - overlap_min
        sc == <<overlap_range, max_pitch - min_pitch + 1>>
    IN  IF overlap_max >= overlap_min /\ Gt(sc, best.best_score)
        THEN [best_match |-> voice_type, best_score |-> sc]
        ELSE best

\* A bug the checks are run against: the loop taken over the categories
\* from bass to soprano.
RECURSIVE OverlapLoopReversed(_, _)
OverlapLoopReversed(n, pitch_range) ==
    IF n = 0
    THEN [best_match |-> VoiceType_OTHER, best_score |-> <<0, 1>>]
    ELSE OverlapStep(OverlapLoopReversed(n - 1, pitch_range),
                     VoiceOrder[Len(VoiceOrder) + 1 - n], pitch_range)

RECURSIVE OverlapLoop(_, _)
OverlapLoop(n, pitch_range) ==
    IF n = 0
    THEN [best_match |-> VoiceType_OTHER, best_score |-> <<0, 1>>]
    ELSE OverlapStep(OverlapLoop(n - 1, pitch_range), VoiceOrder[n], pitch_range)

treble_voices == {VoiceType_SOPRANO, VoiceType_ALTO}
bass_voices == {VoiceType_TENOR, VoiceType_BASS}

\* 3. Pitch-range overlap, only with a pitch range.
OverlapLayer(clef_type, pitch_range) ==
    IF pitch_range # None
    THEN LET best == OverlapLoop(Len(VoiceOrder), pitch_range)
             half == <<OVERLAP_THRESHOLD[1], 2 * OVERLAP_THRESHOLD[2]>>
         IN  IF Gt(best.best_score, OVERLAP_THRESHOLD)
             THEN <<best.best_match>>
             ELSE IF Gt(best.best_score, half)
                     /\ best.best_match \in treble_voices
                     /\ clef_type \in {"treble", "treble8vb", "alto"}
             THEN <<best.best_match>>
             ELSE IF Gt(best.best_score, half)
                     /\ best.best_match \in bass_voices
                     /\ clef_type \in {"bass", "tenor_c"}
             THEN <<best.best_match>>
             ELSE None
    ELSE None

\* A bug the checks are run against: the octave treble clef taken for the
\* treble clef.
ClefDefaultsTrebleFamily(clef_type) ==
    CASE clef_type \in {"treble", "treble8vb"} -> VoiceType_SOPRANO
      [] clef_type = "bass"      -> VoiceType_BASS
      [] clef_type = "alto"      -> VoiceType_ALTO
      [] clef_type = "tenor_c"   -> VoiceType_TENOR
      [] OTHER                   -> VoiceType_OTHER

\* 4. clef_defaults.get(clef_type, VoiceType.OTHER)
clef_defaults(clef_type) ==
    CASE clef_type = "treble"    -> VoiceType_SOPRANO
      [] clef_type = "treble8vb" -> VoiceType_TENOR
      [] clef_type = "bass"      -> VoiceType_BASS
      [] clef_type = "alto"      -> VoiceType_ALTO
      [] clef_type = "tenor_c"   -> VoiceType_TENOR
      [] OTHER                   -> VoiceType_OTHER

\* A bug the checks are run against: the stem-direction hint consulted
\* before the part name.
DetectStemFirst(part_name, clef_type, pitch_range, voice_position) ==
    LET part_name_lower == strip(lower(part_name))
    IN  IF StemLayer(clef_type, voice_position) # None
        THEN StemLayer(clef_type, voice_position)[1]
        ELSE IF NameLayer(part_name_lower) # None
        THEN NameLayer(part_name_lower)[1]
        ELSE IF OverlapLayer(clef_type, pitch_range) # None
        THEN OverlapLayer(clef_type, pitch_range)[1]
        ELSE clef_defaults(clef_type)

\* A bug the checks are run against: the pitch range consulted before the
\* stem-direction hint.
DetectOverlapBeforeStem(part_name, clef_type, pitch_range, voice_position) ==
    LET part_name_lower == strip(lower(part_name))
    IN  IF NameLayer(part_name_lower) # None
        THEN NameLayer(part_name_lower)[1]
        ELSE IF OverlapLayer(clef_type, pitch_range) # None
        THEN OverlapLayer(clef_type, pitch_range)[1]
        ELSE IF StemLayer(clef_type, voice_position) # None
        THEN StemLayer(clef_type, voice_position)[1]
        ELSE clef_defaults(clef_type)

_detect_voice_type(part_name, clef_type, pitch_range, voice_position) ==
    LET part_name_lower == strip(lower(part_name))
    IN  IF NameLayer(part_name_lower) # None
        THEN NameLayer(part_name_lower)[1]
        ELSE IF StemLayer(clef_type, voice_position) # None
        THEN StemLayer(clef_type, voice_position)[1]
        ELSE IF OverlapLayer(clef_type, pitch_range) # None
        THEN OverlapLayer(clef_type, pitch_range)[1]
        ELSE clef_defaults(clef_type)

(***************************************************************************)
(* Direct calls of the classifier, as test_voice_detection.py makes them.  *)
(***************************************************************************)
N_Soprano == <<"S", "o", "p", "r", "a", "n", "o">>
N_Alto == <<"A", "l", "t", "o">>
N_Tenor == <<"T", "e", "n", "o", "r">>
N_Bass == <<"B", "a", "s", "s">>
N_Baritone == <<"B", "a", "r", "i", "t", "o", "n", "e">>
N_Contralto == <<"C", "o", "n", "t", "r", "a", "l", "t", "o">>
N_Sop == <<"S", "o", "p">>
N_SDot == <<"S", ".">>
N_T1 == <<"T", "1">>
N_Piano == <<"P", "i", "a", "n", "o">>
N_Part1 == <<"P", "a", "r", "t", " ", "1">>
N_Voice1 == <<"V", "o", "i", "c", "e", " ", "1">>
N_Empty == <<>>
N_SopranoAlto == <<"S", "o", "p", "r", "a", "n", "o", " ", "A", "l", "t", "o">>
N_BassTenor == <<"B", "a", "s", "s", " ", "T", "e", "n", "o", "r">>
N_PaddedALTO == <<" ", "A", "L", "T", "O", " ">>
N_Basso == <<"B", "a", "s", "s", "o">>
N_Sop_Alto == <<"s", "o", "p", "_", "a", "l", "t", "o">>
N_CounterTenor == <<"C", "o", "u", "n", "t", "e", "r", " ", "T", "e", "n", "o", "r">>
N_ADotBass == <<"A", ".", " ", "B", "a", "s", "s">>
N_PartS == <<"P", "a", "r", "t", " ", "S">>

Names ==
    { N_Soprano, N_Alto, N_Tenor, N_Bass, N_Baritone, N_Contralto, N_Sop,
      N_SDot, N_T1, N_Piano, N_Part1, N_Voice1, N_Empty, N_SopranoAlto,
      N_BassTenor, N_PaddedALTO, N_Basso, N_Sop_Alto, N_CounterTenor,
      N_ADotBass, N_PartS }

ClefTypes == {"treble", "treble8vb", "bass", "alto", "tenor_c", "unknown"}

PitchPoints == {40, 48, 55, 60, 62, 67, 74, 81}

\* The ranges the tests and the specification name, the wider profile, and
\* ranges that meet the default soprano or bass range on 3 semitones only,
\* for scores at and between the threshold and its half.
NamedRanges ==
    { <<0, 10>>, <<30, 32>>, <<40, 52>>, <<45, 57>>, <<50, 70>>, <<60, 72>>,
      <<75, 81>>, <<55, 76>>, <<48, 69>>, <<40, 64>>, <<0, 127>>, <<72, 86>>,
      <<60, 74>>, <<78, 87>>, <<78, 89>>, <<78, 97>>, <<28, 43>> }

PitchRanges ==
    {None} \cup NamedRanges
           \cup { r \in PitchPoints \X PitchPoints : r[1] <= r[2] }

Positions == {None, <<1>>, <<2>>}

NoCall == [done |-> FALSE]

Detect ==
    /\ ~call.done
    /\ \E part_name \in Names, clef_type \in ClefTypes,
          pitch_range \in PitchRanges, voice_position \in Positions :
          call' = [done           |-> TRUE,
                   part_name      |-> part_name,
                   clef_type      |-> clef_type,
                   pitch_range    |-> pitch_range,
                   voice_position |-> voice_position,
                   result         |-> _detect_voice_type(part_name, clef_type,
                                          pitch_range, voice_position)]
    /\ UNCHANGED <<VOICE_RANGES, OVERLAP_THRESHOLD, score, extracted, analysis, midi>>

InitDetect ==
    /\ InitProcessor
    /\ score = <<>>
    /\ call = NoCall
    /\ extracted = None
    /\ analysis = None
    /\ midi = None

NextDetect == Detect

SpecDetect == InitDetect /\ [][NextDetect]_vars

(***************************************************************************)
(* Properties of the classifier, checked under SpecDetect.                 *)
(***************************************************************************)

\* The name as the classifier reads it.
CallName == strip(lower(call.part_name))

\* Whether the name holds, as a whole word, one of the keywords of v.
HasKeyword(v, s) ==
    \E i \in DOMAIN PatternsOf(v) :
        PatternsOf(v)[i].kind = "word" /\ SearchWord(PatternsOf(v)[i].kw, s)

\* The first category, in the order soprano, alto, tenor, bass, one of
\* whose patterns is found in the name.
FirstMatching(s) ==
    VoiceOrder[CHOOSE i \in DOMAIN VoiceOrder :
                  /\ AnySearch(PatternsOf(VoiceOrder[i]), s)
                  /\ \A j \in 1..(i - 1) : ~AnySearch(PatternsOf(VoiceOrder[j]), s)]

\* C1: whenever the part name holds a keyword of some category as a whole
\* word, whatever its case, the result is the first category in the order
\* soprano, alto, tenor, bass with a matching pattern, for every clef, every
\* pitch range (absent too) and every stem position.
C1_NameMatchWins ==
    (call.done /\ \E v \in satb_voices : HasKeyword(v, CallName))
        => call.result = FirstMatching(CallName)

\* C1 witness: "Soprano" on a bass clef with range (40,52) came out soprano.
C1_Witness ==
    /\ call.done
    /\ call.part_name = N_Soprano
    /\ call.clef_type = "bass"
    /\ call.pitch_range = <<40, 52>>
    /\ call.result = VoiceType_SOPRANO

\* The case of C2: no name keyword, clef "unknown", no stem position, and
\* the observed range is the configured range of category v.
C2_Case(v) ==
    /\ call.done
    /\ call.clef_type = "unknown"
    /\ call.voice_position = None
    /\ call.pitch_range = VOICE_RANGES[v]
    /\ NameLayer(CallName) = None

\* C2 as stated: for each category, a voice whose observed range is that
\* category's configured range is classified as that category.
C2_ConfiguredRangeIsOwnCategory ==
    \A v \in satb_voices : C2_Case(v) => call.result = v

\* Whether range a lies inside range b.
Inside(a, b) == b[1] <= a[1] /\ a[2] <= b[2]

\* Category u comes before v in the order soprano, alto, tenor, bass.
Earlier(u, v) ==
    \E i, j \in DOMAIN VoiceOrder : i < j /\ VoiceOrder[i] = u /\ VoiceOrder[j] = v

\* C2 amended: the same, for a category whose configured range <<lo, hi>>
\* lies inside the configured range of no earlier category and has
\* (hi - lo) / (hi - lo + 1) above the threshold; the default ranges
\* and the default threshold are such a configuration.
C2_Amended ==
    \A v \in satb_voices :
        ( /\ C2_Case(v)
          /\ \A u \in satb_voices :
                Earlier(u, v) => ~Inside(VOICE_RANGES[v], VOICE_RANGES[u])
          /\ Gt(<<VOICE_RANGES[v][2] - VOICE_RANGES[v][1],
                  VOICE_RANGES[v][2] - VOICE_RANGES[v][1] + 1>>,
                OVERLAP_THRESHOLD) )
        => call.result = v

\* C2 witness: under the default configuration the bass range (40,60), on
\* an unnamed part with an unknown clef, came out bass.
C2_Witness ==
    /\ C2_Case(VoiceType_BASS)
    /\ VOICE_RANGES = DefaultRanges
    /\ OVERLAP_THRESHOLD = <<3, 10>>
    /\ call.pitch_range = <<40, 60>>
    /\ call.result = VoiceType_BASS

\* C9: a voice with no pitched events, no name keyword and an unknown clef
\* is classified "other", with or without a stem position.
C9_NoPitchUnknownClefIsOther ==
    ( /\ call.done
      /\ call.clef_type = "unknown"
      /\ call.pitch_range = None
      /\ NameLayer(CallName) = None )
    => call.result = VoiceType_OTHER

\* C10: a part named "Baritone" is classified tenor.
C10_BaritoneIsTenor ==
    (call.done /\ call.part_name = N_Baritone)
        => call.result = VoiceType_TENOR

(***************************************************************************)
(* The parsed score (the music21 object graph the code reads).             *)
(*   event    Note, Chord or Rest: its pitches (MIDI numbers), its offset  *)
(*            in its container and its quarterLength, in quarter notes     *)
(*   voice    a stream.Voice of a measure: its id and its events in offset *)
(*            order                                                        *)
(*   measure  a stream.Measure: its number, its attributes (Clef,          *)
(*            KeySignature, TimeSignature, Barline), its voices and the    *)
(*            events it holds directly                                     *)
(*   part     a stream.Part: partName, transposition and its elements,     *)
(*            measures and others (an Instrument)                          *)
(***************************************************************************)
Note(p, off, ql) ==
    [cls |-> "Note", pitches |-> <<p>>, offset |-> off, quarterLength |-> ql]
Chord(ps, off, ql) ==
    [cls |-> "Chord", pitches |-> ps, offset |-> off, quarterLength |-> ql]
Rest(off, ql) ==
    [cls |-> "Rest", pitches |-> <<>>, offset |-> off, quarterLength |-> ql]

Voice(id, elems) == [cls |-> "Voice", id |-> id, elements |-> elems]

Attr(c, v) == [cls |-> c, val |-> v]

Measure(n, attrs, vs, elems) ==
    [cls |-> "Measure", number |-> n, attributes |-> attrs,
     voices |-> vs, elements |-> elems]

Instrument == [cls |-> "Instrument"]

Part(name, transp, elems) ==
    [partName |-> name, transposition |-> transp, elements |-> elems]

SetMax(S) == IF S = {} THEN 0 ELSE CHOOSE x \in S : \A y \in S : y <= x

\* Stream.highestTime of a sequence of events.
highestTime(elems) ==
    SetMax({ elems[i].offset + elems[i].quarterLength : i \in DOMAIN elems })

\* element.duration.quarterLength of a measure: the end of its last event,
\* in the measure itself or in one of its voices.
MeasureDuration(m) ==
    SetMax({ highestTime(m.elements) }
           \cup { highestTime(m.voices[i].elements) : i \in DOMAIN m.voices })

IsMeasure(e) == e.cls = "Measure"

\* part.getElementsByClass(stream.Measure)
Measures(part) == SelectSeq(part.elements, IsMeasure)

\* sorted(S)
RECURSIVE sorted(_)
sorted(S) ==
    IF S = {} THEN <<>>
    ELSE LET m == CHOOSE x \in S : \A y \in S : x <= y
         IN  <<m>> \o sorted(S \ {m})

\* The voices of the measures of a part whose id int() accepts.
_get_voice_ids(part) ==
    sorted(UNION { { m.voices[j].id.val :
                       j \in { k \in DOMAIN m.voices : m.voices[k].id.num } } :
                   m \in Range(Measures(part)) })

\* The first voice of a measure with the id, as the loop with its break
\* finds it: <<>> when there is none.
FindVoice(m, voice_id) ==
    LET hits == { j \in DOMAIN m.voices :
                    m.voices[j].id.num /\ m.voices[j].id.val = voice_id }
    IN  IF hits = {} THEN None
        ELSE <<m.voices[CHOOSE j \in hits : \A k \in hits : j <= k]>>

\* stream.append of each event in turn: each goes to the end of what the
\* stream holds so far.
RECURSIVE AppendAll(_, _)
AppendAll(acc, elems) ==
    IF elems = <<>> THEN acc
    ELSE AppendAll(Append(acc, [Head(elems) EXCEPT !.offset = highestTime(acc)]),
                   Tail(elems))

AttrClasses == <<"Clef", "KeySignature", "TimeSignature", "Barline">>

RECURSIVE CopyAttrs(_, _)
CopyAttrs(n, attrs) ==
    IF n = 0 THEN <<>>
    ELSE CopyAttrs(n - 1, attrs)
         \o SelectSeq(attrs, LAMBDA a : a.cls = AttrClasses[n])

\* A bug the checks are run against: an absent voice leaves its measure
\* empty.
ExtractMeasureNoFill(element, voice_id) ==
    LET target_voice == FindVoice(element, voice_id)
    IN  Measure(element.number,
                CopyAttrs(Len(AttrClasses), element.attributes),
                <<>>,
                IF target_voice # None
                THEN AppendAll(<<>>, target_voice[1].elements)
                ELSE <<>>)

\* The body of the loop of _extract_voice_as_part for one measure.  A
\* Voice with no element is falsy, as a voice that is absent.
ExtractMeasure(element, voice_id) ==
    LET target_voice == FindVoice(element, voice_id)
        dur == MeasureDuration(element)
    IN  Measure(element.number,
                CopyAttrs(Len(AttrClasses), element.attributes),
                <<>>,
                IF target_voice # None /\ target_voice[1].elements # <<>>
                THEN AppendAll(<<>>, target_voice[1].elements)
                ELSE << Rest(0, IF dur # 0 THEN dur ELSE 4) >>)

RECURSIVE ExtractElements(_, _)
ExtractElements(elems, voice_id) ==
    IF elems = <<>> THEN <<>>
    ELSE LET element == Head(elems)
             rest == ExtractElements(Tail(elems), voice_id)
         IN  IF element.cls = "Measure"
             THEN <<ExtractMeasure(element, voice_id)>> \o rest
             ELSE IF element.cls # "Voice"
             THEN <<element>> \o rest
             ELSE rest

_extract_voice_as_part(source_part, voice_id) ==
    Part(source_part.partName, None, ExtractElements(source_part.elements, voice_id))

(***************************************************************************)
(* Extraction of one voice of one combined part: the parts it is run on,   *)
(* and the call.                                                           *)
(***************************************************************************)
MaxMeasures == 2

\* What a voice may hold in a measure of four quarter notes: all of it, its
\* first half, its second half after a gap, or nothing.
VoiceBodies ==
    { << Note(60, 0, 2), Note(64, 2, 2) >>,
      << Note(60, 0, 2) >>,
      << Note(60, 2, 2) >>,
      << >> }

VoiceOptions(id) == { <<>> } \cup { << Voice(Field(id), b) >> : b \in VoiceBodies }

\* Measures, not yet numbered: every pairing of what voices 1 and 2 hold
\* (either may be absent); a measure with attributes, out of the order the
\* code copies them in; a measure of one rest and no voice; a voice whose id
\* int() rejects; two voices with one id.
ExtractMeasureShapes ==
    { Measure(0, <<>>, v1 \o v2, <<>>) : v1 \in VoiceOptions(1), v2 \in VoiceOptions(2) }
    \cup
    { Measure(0, << Attr("Barline", "final"), Attr("TimeSignature", "4/4"),
                    Attr("Clef", "TrebleClef") >>,
              << Voice(Field(1), << Note(72, 0, 4) >>),
                 Voice(Field(2), << Note(60, 0, 4) >>) >>, <<>>),
      Measure(0, <<>>, <<>>, << Rest(0, 4) >>),
      Measure(0, <<>>, << Voice(BadField, << Note(60, 0, 4) >>),
                          Voice(Field(2), << Note(55, 0, 2) >>) >>, <<>>),
      Measure(0, <<>>, << Voice(Field(1), << Note(60, 0, 1) >>),
                          Voice(Field(1), << Note(62, 0, 4) >>) >>, <<>>) }

Numbered(ms) == [i \in DOMAIN ms |-> [ms[i] EXCEPT !.number = i]]

SeqsUpTo(S, n) == UNION { [1..k -> S] : k \in 0..n }

ExtractParts ==
    { Part(N_Part1, None, <<Instrument>> \o Numbered(ms)) :
        ms \in SeqsUpTo(ExtractMeasureShapes, MaxMeasures) }

IsCombined(part) == Len(_get_voice_ids(part)) > 1

Idle == call = NoCall /\ extracted = None /\ analysis = None /\ midi = None

\* _extract_voice_as_part on a combined part, for one of its voice ids, as
\* generate_midi_files calls it.
Extract ==
    /\ Idle
    /\ \E part_idx \in 0..(Len(score) - 1) :
          /\ IsCombined(score[part_idx + 1])
          /\ \E voice_id \in Range(_get_voice_ids(score[part_idx + 1])) :
                extracted' =
                    << [part_idx |-> part_idx,
                        voice_id |-> voice_id,
                        part     |-> _extract_voice_as_part(score[part_idx + 1],
                                                            voice_id)] >>
    /\ UNCHANGED <<VOICE_RANGES, OVERLAP_THRESHOLD, score, call, analysis, midi>>

InitExtract ==
    /\ VOICE_RANGES = DefaultRanges
    /\ OVERLAP_THRESHOLD = DefaultEnv.VOICE_OVERLAP_THRESHOLD
    /\ \E part \in ExtractParts : score = <<part>>
    /\ call = NoCall
    /\ extracted = None
    /\ analysis = None
    /\ midi = None

NextExtract == Extract

SpecExtract == InitExtract /\ [][NextExtract]_vars

(***************************************************************************)
(* Properties of the extraction, checked under SpecExtract.                *)
(***************************************************************************)
SourceMeasures == Measures(score[extracted[1].part_idx + 1])
ExtractedMeasures == Measures(extracted[1].part)

\* What the extracted measure is to last: as long as the source measure,
\* and the 4-beat default where the source measure has no duration.
ExpectedDuration(m) == IF MeasureDuration(m) # 0 THEN MeasureDuration(m) ELSE 4

\* C3: the part extracted for a voice of a combined part has as many
\* measures as the source, in the same order, each as long as the source
\* measure (the 4-beat default standing in for a source measure with no
\* duration), whether the voice is present in the measure, absent from it or
\* present with events that cover only part of it.
C3_ExtractionKeepsDurations ==
    extracted # None =>
        /\ Len(ExtractedMeasures) = Len(SourceMeasures)
        /\ \A i \in DOMAIN SourceMeasures :
              /\ ExtractedMeasures[i].number = SourceMeasures[i].number
              /\ MeasureDuration(ExtractedMeasures[i]) = ExpectedDuration(SourceMeasures[i])

(***************************************************************************)
(* analyze_musicxml and its helpers.                                       *)
(***************************************************************************)
RECURSIVE Concat(_)
Concat(ss) == IF ss = <<>> THEN <<>> ELSE Head(ss) \o Concat(Tail(ss))

\* part.flatten(): the attributes of the measures of a part, in measure
\* order, and its events, those of the voices included.
FlatAttrs(part) ==
    Concat([i \in DOMAIN Measures(part) |-> Measures(part)[i].attributes])

MeasureEvents(m) ==
    m.elements \o Concat([j \in DOMAIN m.voices |-> m.voices[j].elements])

FlatEvents(part) ==
    Concat([i \in DOMAIN Measures(part) |-> MeasureEvents(Measures(part)[i])])

\* isinstance(first_clef, base) for the clef classes of music21.
IsInstance(c, base) ==
    \/ c = base
    \/ base = "TrebleClef" /\ c \in {"Treble8vbClef", "Treble8vaClef"}
    \/ base = "BassClef" /\ c \in {"Bass8vbClef", "Bass8vaClef"}

_detect_clef(part) ==
    LET clefs == SelectSeq(FlatAttrs(part), LAMBDA a : a.cls = "Clef")
    IN  IF clefs # <<>>
        THEN LET first_clef == clefs[1].val
             IN  IF IsInstance(first_clef, "Treble8vbClef") THEN "treble8vb"
                 ELSE IF IsInstance(first_clef, "TrebleClef") THEN "treble"
                 ELSE IF IsInstance(first_clef, "BassClef") THEN "bass"
                 ELSE IF IsInstance(first_clef, "AltoClef") THEN "alto"
                 ELSE IF IsInstance(first_clef, "TenorClef") THEN "tenor_c"
                 ELSE "unknown"
        ELSE "unknown"

SetMin(S) == CHOOSE x \in S : \A y \in S : x <= y

\* The pitches of the Note and Chord events of a list, each shifted.
Pitches(elements, octave_correction) ==
    UNION { { elements[i].pitches[k] + octave_correction :
                k \in DOMAIN elements[i].pitches } :
            i \in { j \in DOMAIN elements : elements[j].cls \in {"Note", "Chord"} } }

_analyze_pitch_range_from_elements(elements, octave_correction) ==
    LET pitches == Pitches(elements, octave_correction)
    IN  IF pitches = {} THEN None
        ELSE <<SetMin(pitches), SetMax(pitches)>>

_analyze_pitch_range(part, octave_correction) ==
    LET pitches == Pitches(FlatEvents(part), octave_correction)
    IN  IF pitches = {} THEN None
        ELSE <<SetMin(pitches), SetMax(pitches)>>

\* The events of one voice id over the measures of a part: in each
\* measure, those of the first voice with the id.
_get_voice_flat_notes(part, voice_id) ==
    Concat([i \in DOMAIN Measures(part) |->
              IF FindVoice(Measures(part)[i], voice_id) # None
              THEN FindVoice(Measures(part)[i], voice_id)[1].elements
              ELSE <<>>])

\* str(n) for n >= 0.
RECURSIVE str(_)
str(n) ==
    IF n < 10 THEN <<Digits[n + 1]>>
    ELSE str(n \div 10) \o <<Digits[(n % 10) + 1]>>

NoteCount(elements) ==
    Cardinality({ i \in DOMAIN elements : elements[i].cls \in {"Note", "Chord"} })

\* The display name the code infers from clef and voice position.
inferred(clef_type, voice_position, voice_id) ==
    IF clef_type \in {"treble", "treble8vb"} /\ voice_position = 1
    THEN <<"S", "o", "p", "r", "a", "n", "o">>
    ELSE IF clef_type \in {"treble", "treble8vb"} /\ voice_position = 2
    THEN <<"A", "l", "t", "o">>
    ELSE IF clef_type = "bass" /\ voice_position = 1
    THEN <<"T", "e", "n", "o", "r">>
    ELSE IF clef_type = "bass" /\ voice_position = 2
    THEN <<"B", "a", "s", "s">>
    ELSE <<"V", "o", "i", "c", "e", " ">> \o str(voice_id)

\* A bug the checks are run against: the octave correction applied
\* whether or not the part carries a transposition.
OctaveCorrectionAlways(part) ==
    IF _detect_clef(part) = "treble8vb" THEN -12 ELSE 0

octave_correction(part) ==
    IF _detect_clef(part) = "treble8vb" /\ part.transposition = None
    THEN -12 ELSE 0

PartNameOf(part, part_idx) ==
    IF part.partName # <<>> THEN part.partName
    ELSE <<"P", "a", "r", "t", " ">> \o str(part_idx + 1)

\* The entries analyze_musicxml appends for one part, given the linear
\* index of the first of them.  Next to the keys of the dict the code
\* appends, an entry records the voice_position passed to
\* _detect_voice_type for it.
PartEntries(part, part_idx, linear_idx) ==
    LET part_name == PartNameOf(part, part_idx)
        clef_type == _detect_clef(part)
        voice_ids == _get_voice_ids(part)
    IN  IF Len(voice_ids) > 1
        THEN [voice_position \in DOMAIN voice_ids |->
                LET voice_id == voice_ids[voice_position]
                    voice_elements == _get_voice_flat_notes(part, voice_id)
                    pitch_range == _analyze_pitch_range_from_elements(
                                       voice_elements, octave_correction(part))
                    voice_name == part_name \o <<" ", "(">>
                                  \o inferred(clef_type, voice_position, voice_id)
                                  \o <<")">>
                IN  [index          |-> linear_idx + voice_position - 1,
                     part_index     |-> part_idx,
                     voice_id       |-> <<voice_id>>,
                     name           |-> voice_name,
                     clef           |-> clef_type,
                     pitch_range    |-> pitch_range,
                     detected_voice |-> _detect_voice_type(voice_name, clef_type,
                                            pitch_range, <<voice_position>>),
                     note_count     |-> NoteCount(voice_elements),
                     score_format   |-> "short_score",
                     voice_position |-> <<voice_position>>]]
        ELSE LET pitch_range == _analyze_pitch_range(part, octave_correction(part))
             IN  << [index          |-> linear_idx,
                     part_index     |-> part_idx,
                     voice_id       |-> None,
                     name           |-> part_name,
                     clef           |-> clef_type,
                     pitch_range    |-> pitch_range,
                     detected_voice |-> _detect_voice_type(part_name, clef_type,
                                            pitch_range, None),
                     note_count     |-> NoteCount(FlatEvents(part)),
                     score_format   |-> "open_score",
                     voice_position |-> None] >>

\* parts_info after the first n parts of the score.
RECURSIVE parts_info(_, _)
parts_info(sc, n) ==
    IF n = 0 THEN <<>>
    ELSE LET before == parts_info(sc, n - 1)
         IN  before \o PartEntries(sc[n], n - 1, Len(before))

analyze_musicxml(sc) ==
    [raised      |-> FALSE,
     parts       |-> parts_info(sc, Len(sc)),
     total_parts |-> Len(parts_info(sc, Len(sc)))]

(***************************************************************************)
(* generate_midi_files and its helpers.  An assignment mapping is a dict   *)
(* whose keys are strings or integers: strs holds the entries under a      *)
(* string key, ints those under an integer key.                            *)
(***************************************************************************)
\* voice_index_map after the first n parts of the score: the entry at
\* position i + 1 is the value under the key str(i).
\* A bug the checks are run against: the index map built with one key per
\* part, the voices of a combined part not expanded.
IndexMapOnePerPart(sc) ==
    [n \in DOMAIN sc |-> [part_idx |-> n - 1, voice_id |-> None]]

RECURSIVE IndexMapUpTo(_, _)
IndexMapUpTo(sc, n) ==
    IF n = 0 THEN <<>>
    ELSE LET voice_ids == _get_voice_ids(sc[n])
         IN  IndexMapUpTo(sc, n - 1) \o
             (IF Len(voice_ids) > 1
              THEN [k \in DOMAIN voice_ids |->
                      [part_idx |-> n - 1, voice_id |-> <<voice_ids[k]>>]]
              ELSE << [part_idx |-> n - 1, voice_id |-> None] >>)

_build_voice_index_map(sc) == IndexMapUpTo(sc, Len(sc))

DigitValue(c) == CHOOSE d \in 0..9 : Digits[d + 1] = c

\* int(s) for a string of decimal digits.
RECURSIVE int(_)
int(s) ==
    IF Len(s) = 1 THEN DigitValue(s[1])
    ELSE 10 * int(SubSeq(s, 1, Len(s) - 1)) + DigitValue(s[Len(s)])

\* A bug the checks are run against: the assignment read under the
\* integer key only.
LookupIntKeyOnly(voice_assignments, str_idx) ==
    IF int(str_idx) \in DOMAIN voice_assignments.ints
    THEN voice_assignments.ints[int(str_idx)]
    ELSE VoiceType_OTHER

\* voice_assignments.get(str_idx, voice_assignments.get(int(str_idx), OTHER))
Lookup(voice_assignments, str_idx) ==
    IF str_idx \in DOMAIN voice_assignments.strs
    THEN voice_assignments.strs[str_idx]
    ELSE IF int(str_idx) \in DOMAIN voice_assignments.ints
    THEN voice_assignments.ints[int(str_idx)]
    ELSE VoiceType_OTHER

\* d.setdefault(k, []).append(x)
SetDefaultAppend(d, k, x) ==
    [c \in DOMAIN d \cup {k} |->
        IF c = k THEN (IF k \in DOMAIN d THEN Append(d[k], x) ELSE <<x>>)
        ELSE d[c]]

EmptyDict == [c \in {} |-> <<>>]

\* The stream the grouping loop takes for one logical voice; source keeps
\* which logical voice the stream object came from.
PartStream(sc, entry) ==
    [source |-> entry,
     part   |-> IF entry.voice_id # None
                THEN _extract_voice_as_part(sc[entry.part_idx + 1], entry.voice_id[1])
                ELSE sc[entry.part_idx + 1]]

\* The grouping loop after the first n entries of the voice index map.
RECURSIVE Grouped(_, _, _)
Grouped(sc, voice_assignments, n) ==
    IF n = 0 THEN [voice_parts |-> EmptyDict, other_entries |-> <<>>]
    ELSE LET before      == Grouped(sc, voice_assignments, n - 1)
             voice_type  == Lookup(voice_assignments, str(n - 1))
             part_stream == PartStream(sc, _build_voice_index_map(sc)[n])
         IN  IF voice_type = VoiceType_OTHER
             THEN [before EXCEPT !.other_entries = Append(@, part_stream)]
             ELSE [before EXCEPT !.voice_parts =
                      SetDefaultAppend(@, voice_type, part_stream)]

FallbackName(part) ==
    IF part.partName # <<>> THEN part.partName ELSE <<"P", "a", "r", "t">>

\* The fallback loop after the first n of the other entries.
RECURSIVE Fallback(_, _, _)
Fallback(voice_parts, other_entries, n) ==
    IF n = 0 THEN voice_parts
    ELSE LET before      == Fallback(voice_parts, other_entries, n - 1)
             part_stream == other_entries[n]
             clef_type   == _detect_clef(part_stream.part)
             pitch_range == _analyze_pitch_range(part_stream.part, 0)
             detected    == _detect_voice_type(FallbackName(part_stream.part),
                                clef_type, pitch_range, None)
         IN  IF detected # VoiceType_OTHER
             THEN SetDefaultAppend(before, detected, part_stream)
             ELSE before

_get_instrument_for_voice(voice_type) ==
    [cls |-> "Instrument",
     val |-> CASE voice_type = VoiceType_SOPRANO -> "Soprano"
               [] voice_type = VoiceType_ALTO    -> "Alto"
               [] voice_type = VoiceType_TENOR   -> "Tenor"
               [] voice_type = VoiceType_BASS    -> "Bass"
               [] OTHER                          -> "Vocalist"]

\* The score written for one category: a copy of each stream, with the
\* category's instrument inserted at offset 0.
VoiceScore(voice_type, parts) ==
    [i \in DOMAIN parts |->
        [source |-> parts[i].source,
         part   |-> [parts[i].part EXCEPT !.elements =
                        <<_get_instrument_for_voice(voice_type)>> \o @]]]

\* The grouping the files are written from.
VoiceParts(sc, voice_assignments) ==
    LET g == Grouped(sc, voice_assignments, Len(_build_voice_index_map(sc)))
    IN  IF (\A v \in satb_voices : v \notin DOMAIN g.voice_parts)
           /\ g.other_entries # <<>>
        THEN Fallback(g.voice_parts, g.other_entries, Len(g.other_entries))
        ELSE g.voice_parts

\* The object the instrument is inserted into, with a bug the checks are
\* run against: part_copy = copy.deepcopy(part) left out, so that the
\* insert acts on the stream itself.
InsertTargetStream(part_stream) == "stream"

\* part_copy = copy.deepcopy(part); part_copy.insert(0, instrument)
InsertTarget(part_stream) == "copy"

\* The source score after the loop that builds the category scores.  The
\* stream of an open part is the part of the source score itself, that of
\* a voice of a combined part is a new Part.
ScoreAfterWrites(sc, voice_parts) ==
    [p \in DOMAIN sc |->
        LET hits == { c \in DOMAIN voice_parts \ {VoiceType_OTHER} :
                        \E k \in DOMAIN voice_parts[c] :
                            /\ voice_parts[c][k].source
                                 = [part_idx |-> p - 1, voice_id |-> None]
                            /\ InsertTarget(voice_parts[c][k]) = "stream" }
        IN  IF hits = {} THEN sc[p]
            ELSE [sc[p] EXCEPT !.elements =
                     <<_get_instrument_for_voice(CHOOSE c \in hits : TRUE)>> \o @]]

\* A bug the checks are run against: the write of a category's file not
\* guarded, so that its failure ends the call.
GenerateAbortOnFailure(sc, voice_assignments, failing) ==
    LET voice_parts == VoiceParts(sc, voice_assignments)
        written     == DOMAIN voice_parts \ {VoiceType_OTHER}
        after       == ScoreAfterWrites(sc, voice_parts)
    IN  IF failing \cap (written \cup {"all"}) # {}
        THEN [raised |-> TRUE, voice_parts |-> voice_parts,
              midi_files |-> EmptyDict, score |-> after]
        ELSE [raised      |-> FALSE,
              voice_parts |-> voice_parts,
              midi_files  |-> [c \in written \cup {"all"} |->
                                 IF c = "all" THEN after
                                 ELSE VoiceScore(c, voice_parts[c])],
              score       |-> after]

\* failing: the files whose write raises.  The write of a category's file
\* is guarded, that of the combined file is not.  score is the parsed
\* score as the call leaves it, which is what the combined file is written
\* from.
generate_midi_files(sc, voice_assignments, failing) ==
    LET voice_parts == VoiceParts(sc, voice_assignments)
        written     == { c \in DOMAIN voice_parts :
                           c # VoiceType_OTHER /\ c \notin failing }
        after       == ScoreAfterWrites(sc, voice_parts)
    IN  IF "all" \in failing
        THEN [raised |-> TRUE, voice_parts |-> voice_parts,
              midi_files |-> EmptyDict, score |-> after]
        ELSE [raised      |-> FALSE,
              voice_parts |-> voice_parts,
              midi_files  |-> [c \in written \cup {"all"} |->
                                 IF c = "all" THEN after
                                 ELSE VoiceScore(c, voice_parts[c])],
              score       |-> after]

(***************************************************************************)
(* The service on a score: analysis and MIDI generation.                   *)
(***************************************************************************)
MaxParts == 2

\* A part of one measure with no voice sub-stream (an open-score part).
OpenPart(name, attrs, transp, events) ==
    Part(name, transp, << Measure(1, attrs, <<>>, events) >>)

\* A part of one measure with voices 1 and 2 (a combined staff).
CombinedPart(name, attrs, transp, events1, events2) ==
    Part(name, transp,
         << Measure(1, attrs,
                    << Voice(Field(1), events1), Voice(Field(2), events2) >>,
                    <<>>) >>)

Clef(c) == << Attr("Clef", c) >>

Span(lo, hi) == << Note(lo, 0, 2), Note(hi, 2, 2) >>

\* A treble staff of soprano and alto, and a bass staff of tenor and bass,
\* in the ranges of a four-part setting.
StaffSA == CombinedPart(None, Clef("TrebleClef"), None,
                        Span(64, 79), << Chord(<<57, 60>>, 0, 2), Note(72, 2, 2) >>)
StaffTB == CombinedPart(None, Clef("BassClef"), None, Span(50, 65), Span(41, 58))

\* A treble staff whose two voices lie a tone apart.
StaffSAClose == CombinedPart(None, Clef("TrebleClef"), None, Span(62, 74), Span(60, 72))

\* Tenor parts on the octave-transposing treble clef: written an octave
\* above the sound, without and with a transposition, and a combined staff.
Tenor8vb == OpenPart(None, Clef("Treble8vbClef"), None, Span(72, 86))
Tenor8vbTransposed == OpenPart(None, Clef("Treble8vbClef"), <<"P-8">>, Span(62, 79))
Staff8vb == CombinedPart(None, Clef("Treble8vbClef"), None, Span(62, 79), Span(60, 74))

\* A part of one rest and no clef; a staff with no clef whose first voice
\* rests.
RestPart == OpenPart(None, <<>>, None, << Rest(0, 4) >>)
StaffNoClef == CombinedPart(None, <<>>, None, << Rest(0, 4) >>, Span(55, 67))

PartSet ==
    { StaffSA, StaffTB, StaffSAClose, Tenor8vb, Tenor8vbTransposed, Staff8vb,
      RestPart, StaffNoClef }

EmptyAssignment == [strs |-> EmptyDict, ints |-> EmptyDict]

\* The assignment a client builds from an analysis: the linear index of
\* each entry, as a string, to the category detected for it.
AnalysisAssignment(a) ==
    [strs |-> [k \in { str(a.parts[i].index) : i \in DOMAIN a.parts } |->
                 LET i == CHOOSE j \in DOMAIN a.parts : str(a.parts[j].index) = k
                 IN  a.parts[i].detected_voice],
     ints |-> EmptyDict]

FailureChoices == { {}, {VoiceType_ALTO}, {"all"} }

Analyze ==
    /\ analysis = None
    /\ analysis' = << analyze_musicxml(score) >>
    /\ UNCHANGED <<VOICE_RANGES, OVERLAP_THRESHOLD, score, call, extracted, midi>>

\* generate_midi_files for an assignment; origin records where the
\* assignment came from.
Generate(voice_assignments, origin) ==
    /\ midi = None
    /\ \E failing \in FailureChoices :
          LET result == generate_midi_files(score, voice_assignments, failing)
          IN  /\ midi' = << [origin            |-> origin,
                             voice_assignments |-> voice_assignments,
                             failing           |-> failing,
                             result            |-> result] >>
              /\ score' = result.score
    /\ UNCHANGED <<VOICE_RANGES, OVERLAP_THRESHOLD, call, extracted, analysis>>

GenerateUnassigned == Generate(EmptyAssignment, "none")

GenerateRoundTrip ==
    /\ analysis # None
    /\ Generate(AnalysisAssignment(analysis[1]), "analysis")

Init ==
    /\ InitProcessor
    /\ score \in SeqsUpTo(PartSet, MaxParts)
    /\ call = NoCall
    /\ extracted = None
    /\ analysis = None
    /\ midi = None

Next == Analyze \/ GenerateUnassigned \/ GenerateRoundTrip

Spec == Init /\ [][Next]_vars

(***************************************************************************)
(* Properties of analysis and generation, checked under Spec.              *)
(***************************************************************************)
Generated == midi[1]

\* The category, if any, under which a grouping holds each logical voice.
Placement(voice_parts) ==
    [i \in DOMAIN _build_voice_index_map(score) |->
        { c \in DOMAIN voice_parts :
            \E k \in DOMAIN voice_parts[c] :
                voice_parts[c][k].source = _build_voice_index_map(score)[i] }]

TwoVoices(part) == Len(_get_voice_ids(part)) = 2

\* A treble staff of two voices followed by a bass staff of two voices.
C4_Scenario ==
    /\ Len(score) = 2
    /\ TwoVoices(score[1]) /\ _detect_clef(score[1]) = "treble"
    /\ TwoVoices(score[2]) /\ _detect_clef(score[2]) = "bass"

\* C4: for a score of two combined staves (a treble staff and a bass staff,
\* four logical voices) and an empty assignment, every write succeeding,
\* the output of generate_midi_files holds a stream with at least one part
\* for each of soprano, alto, tenor and bass.
C4_FallbackYieldsSATB ==
    (midi # None /\ Generated.origin = "none" /\ Generated.failing = {}
        /\ C4_Scenario)
    => /\ ~Generated.result.raised
       /\ \A v \in satb_voices :
             /\ v \in DOMAIN Generated.result.midi_files
             /\ Generated.result.midi_files[v] # <<>>

\* C5: generating with the assignment taken from the analysis of the score
\* groups every logical voice under the same category as generating with no
\* assignment does.
C5_RoundTrip ==
    (midi # None /\ Generated.origin = "analysis")
    => Placement(Generated.result.voice_parts)
         = Placement(generate_midi_files(score, EmptyAssignment,
                                         Generated.failing).voice_parts)

NoPitchedEvents(sc) ==
    \A i \in DOMAIN sc : Pitches(FlatEvents(sc[i]), 0) = {}

\* C7: for a score with no part, or with no pitched event, analyze_musicxml
\* and generate_midi_files fail instead of returning a result.
C7_EmptyScoreRejected ==
    (Len(score) = 0 \/ NoPitchedEvents(score))
    => /\ analysis # None => analysis[1].raised
       /\ midi # None => Generated.result.raised

EntryPart(e) == score[e.part_index + 1]

EntryEvents(e) ==
    IF e.voice_id = None THEN FlatEvents(EntryPart(e))
    ELSE _get_voice_flat_notes(EntryPart(e), e.voice_id[1])

\* The range of the pitches as written, <<>> when there is none.
WrittenRange(e) ==
    LET ps == Pitches(EntryEvents(e), 0)
    IN  IF ps = {} THEN None ELSE <<SetMin(ps), SetMax(ps)>>

EntryPosition(e) ==
    IF e.voice_id = None THEN None
    ELSE << CHOOSE k \in DOMAIN _get_voice_ids(EntryPart(e)) :
               _get_voice_ids(EntryPart(e))[k] = e.voice_id[1] >>

ShiftDown(r, d) == IF r = None THEN None ELSE <<r[1] - d, r[2] - d>>

OctaveClefUntransposed(e) ==
    _detect_clef(EntryPart(e)) = "treble8vb" /\ EntryPart(e).transposition = None

SoundingRange(e) ==
    ShiftDown(WrittenRange(e), IF OctaveClefUntransposed(e) THEN 12 ELSE 0)

\* C8: every entry of an analysis reports, and is classified from, the
\* written range of its voice shifted down 12 semitones when the part is on
\* the octave-transposing treble clef and carries no transposition, and the
\* written range itself otherwise.
C8_OctaveCorrection ==
    analysis # None =>
        \A i \in DOMAIN analysis[1].parts :
            LET e == analysis[1].parts[i]
            IN  /\ e.pitch_range = SoundingRange(e)
                /\ e.detected_voice =
                       _detect_voice_type(e.name, _detect_clef(EntryPart(e)),
                                          SoundingRange(e), EntryPosition(e))

\* A tenor part written (72,86) on the octave clef is analysed as (60,74),
\* next to a transposed part on the same clef analysed as written.
C8_Witness ==
    /\ analysis # None
    /\ \E i, j \in DOMAIN analysis[1].parts :
          LET e == analysis[1].parts[i]
              f == analysis[1].parts[j]
          IN  /\ OctaveClefUntransposed(e)
              /\ WrittenRange(e) = <<72, 86>>
              /\ e.pitch_range = <<60, 74>>
              /\ e.detected_voice =
                     _detect_voice_type(e.name, "treble8vb", <<60, 74>>, None)
              /\ f.clef = "treble8vb"
              /\ EntryPart(f).transposition # None
              /\ f.pitch_range = WrittenRange(f)

(***************************************************************************)
(* Generation for the assignments a client may send.                       *)
(***************************************************************************)
MaxKey == 3

\* Four logical voices on two staves; an open part before a staff; one staff.
AssignScores ==
    { <<StaffSA, StaffTB>>, <<Tenor8vb, StaffTB>>, <<StaffSAClose>> }

StrKeys == { str(i) : i \in 0..MaxKey }

AssignValues == {VoiceType_SOPRANO, VoiceType_ALTO, VoiceType_OTHER}

\* Any of the string keys present or not, and at most one integer key.
Assignments ==
    { [strs |-> f, ints |-> g] :
        f \in UNION { [K -> AssignValues] : K \in SUBSET StrKeys },
        g \in { EmptyDict, [k \in {0} |-> VoiceType_TENOR],
                [k \in {1} |-> VoiceType_TENOR] } }

GenerateAssigned == \E a \in Assignments : Generate(a, "client")

InitAssign ==
    /\ VOICE_RANGES = DefaultRanges
    /\ OVERLAP_THRESHOLD = DefaultEnv.VOICE_OVERLAP_THRESHOLD
    /\ score \in AssignScores
    /\ call = NoCall
    /\ extracted = None
    /\ analysis = None
    /\ midi = None

NextAssign == GenerateAssigned

SpecAssign == InitAssign /\ [][NextAssign]_vars

(***************************************************************************)
(* Properties of generation under an assignment, checked under SpecAssign. *)
(***************************************************************************)
LogicalVoices == DOMAIN _build_voice_index_map(score)

\* The category an assignment gives the logical voice at position i of the
\* voice index map, whose key is i - 1: "other" when it has no key for it.
Assigned(a, i) ==
    IF str(i - 1) \in DOMAIN a.strs THEN a.strs[str(i - 1)]
    ELSE IF (i - 1) \in DOMAIN a.ints THEN a.ints[i - 1]
    ELSE VoiceType_OTHER

PositionOf(source) ==
    CHOOSE i \in LogicalVoices : _build_voice_index_map(score)[i] = source

\* An assignment without the keys that match no logical voice.
WithoutUnknownKeys(a) ==
    [strs |-> [k \in { str(i - 1) : i \in LogicalVoices } \cap DOMAIN a.strs |->
                 a.strs[k]],
     ints |-> [k \in { i - 1 : i \in LogicalVoices } \cap DOMAIN a.ints |->
                 a.ints[k]]]

\* C6: when an assignment gives at least one logical voice a named
\* category, the output written for a named category holds exactly one part
\* per logical voice assigned to it, in linear-index order, each the
\* voice's own stream behind the inserted instrument; a category with no
\* such voice has no output, so a voice with no key, or assigned "other",
\* is in none; and the keys that match no logical voice change nothing.
C6_MergeByAssignment ==
    (/\ midi # None
     /\ Generated.origin = "client"
     /\ ~Generated.result.raised
     /\ \E i \in LogicalVoices :
           Assigned(Generated.voice_assignments, i) \in satb_voices)
    => LET files == Generated.result.midi_files
           a     == Generated.voice_assignments
       IN  /\ DOMAIN files \subseteq satb_voices \cup {"all"}
           /\ \A c \in satb_voices \ Generated.failing :
                 LET expected == { i \in LogicalVoices : Assigned(a, i) = c }
                     out      == IF c \in DOMAIN files THEN files[c] ELSE <<>>
                 IN  /\ c \in DOMAIN files <=> expected # {}
                     /\ Len(out) = Cardinality(expected)
                     /\ \A k \in DOMAIN out :
                           /\ PositionOf(out[k].source) \in expected
                           /\ [out[k].part EXCEPT !.elements = Tail(@)]
                                = PartStream(score, out[k].source).part
                     /\ \A k, l \in DOMAIN out :
                           k < l => PositionOf(out[k].source) < PositionOf(out[l].source)
           /\ Generated.result
                = generate_midi_files(score, WithoutUnknownKeys(a), Generated.failing)

\* Two logical voices merged into one output, next to a voice with no key
\* and a key that matches no voice.
C6_Witness ==
    /\ midi # None
    /\ Generated.origin = "client"
    /\ ~Generated.result.raised
    /\ \E c \in satb_voices :
          /\ c \in DOMAIN Generated.result.midi_files
          /\ Len(Generated.result.midi_files[c]) = 2
    /\ \E i \in LogicalVoices :
          /\ str(i - 1) \notin DOMAIN Generated.voice_assignments.strs
          /\ (i - 1) \notin DOMAIN Generated.voice_assignments.ints
    /\ \E k \in DOMAIN Generated.voice_assignments.strs :
          int(k) + 1 \notin LogicalVoices

(***************************************************************************)
(* Further properties of the classifier, checked under SpecDetect.         *)
(***************************************************************************)
\* C11: a part named "Contralto" is classified alto, for every clef, every
\* pitch range and every stem position.
C11_ContraltoIsAlto ==
    (call.done /\ call.part_name = N_Contralto)
        => call.result = VoiceType_ALTO

(***************************************************************************)
(* Write failures and the source score, checked under SpecAssign.          *)
(***************************************************************************)
\* C12: when the write of a named category's file fails and that of the
\* combined file does not, generate_midi_files still returns: of the named
\* categories that have a stream, exactly those whose write succeeded are
\* in the result, and the combined "all" stream is in it.
C12_PartialSuccess ==
    (midi # None /\ Generated.failing # {} /\ "all" \notin Generated.failing)
    => /\ ~Generated.result.raised
       /\ "all" \in DOMAIN Generated.result.midi_files
       /\ \A c \in satb_voices :
             c \in DOMAIN Generated.result.voice_parts
             => (c \in DOMAIN Generated.result.midi_files
                    <=> c \notin Generated.failing)

\* The alto write failed on a score with an alto and a soprano stream: the
\* result has soprano and "all", and no alto.
C12_Witness ==
    /\ midi # None
    /\ Generated.failing = {VoiceType_ALTO}
    /\ VoiceType_ALTO \in DOMAIN Generated.result.voice_parts
    /\ VoiceType_SOPRANO \in DOMAIN Generated.result.voice_parts
    /\ ~Generated.result.raised
    /\ VoiceType_SOPRANO \in DOMAIN Generated.result.midi_files
    /\ VoiceType_ALTO \notin DOMAIN Generated.result.midi_files
    /\ "all" \in DOMAIN Generated.result.midi_files

\* C20: no step changes the parsed score, and the combined "all" stream a
\* call of generate_midi_files returns is the score as parsed, whatever the
\* assignment.
C20_SourceScoreUnchanged ==
    [][ /\ score' = score
        /\ (midi' # midi /\ ~midi'[1].result.raised)
              => midi'[1].result.midi_files["all"] = score ]_vars

\* An open part went into a named category: the copy written there starts
\* with the instrument, the part of the source score does not.
C20_Witness ==
    /\ midi # None
    /\ ~Generated.result.raised
    /\ Generated.result.midi_files["all"] = score
    /\ \E c \in DOMAIN Generated.result.midi_files \ {"all"} :
          \E k \in DOMAIN Generated.result.midi_files[c] :
              LET written == Generated.result.midi_files[c][k]
              IN  /\ written.source.voice_id = None
                  /\ written.part.elements[1].cls = "Instrument"
                  /\ score[written.source.part_idx + 1].elements[1].cls = "Measure"

(***************************************************************************)
(* The layers below the name, checked under SpecDetect.                    *)
(***************************************************************************)
\* The case of C13 to C16: a finished call whose name holds no keyword.
Unnamed == call.done /\ NameLayer(CallName) = None

InsideConfigured(v) == Inside(call.pitch_range, VOICE_RANGES[v])

\* C13 as stated: with no name keyword and no stem position, a treble-clef
\* voice whose range lies inside the configured soprano or alto range is
\* soprano or alto, and a bass-clef voice whose range lies inside the
\* configured tenor or bass range is tenor or bass.
C13_ClefAndRangeAgree ==
    (Unnamed /\ call.voice_position = None /\ call.pitch_range # None)
    => /\ (call.clef_type = "treble"
             /\ (InsideConfigured(VoiceType_SOPRANO) \/ InsideConfigured(VoiceType_ALTO)))
          => call.result \in {VoiceType_SOPRANO, VoiceType_ALTO}
       /\ (call.clef_type = "bass"
             /\ (InsideConfigured(VoiceType_TENOR) \/ InsideConfigured(VoiceType_BASS)))
          => call.result \in {VoiceType_TENOR, VoiceType_BASS}

\* C13 amended: the same, the bass-clef voice's range lying inside neither
\* the configured soprano range nor the configured alto range.
C13_Amended ==
    (Unnamed /\ call.voice_position = None /\ call.pitch_range # None)
    => /\ (call.clef_type = "treble"
             /\ (InsideConfigured(VoiceType_SOPRANO) \/ InsideConfigured(VoiceType_ALTO)))
          => call.result \in {VoiceType_SOPRANO, VoiceType_ALTO}
       /\ (call.clef_type = "bass"
             /\ (InsideConfigured(VoiceType_TENOR) \/ InsideConfigured(VoiceType_BASS))
             /\ ~InsideConfigured(VoiceType_SOPRANO)
             /\ ~InsideConfigured(VoiceType_ALTO))
          => call.result \in {VoiceType_TENOR, VoiceType_BASS}

\* "Part 1" on a bass clef with range (40,52), inside the default bass
\* range only, came out bass.
C13_Witness ==
    /\ call.done
    /\ call.part_name = N_Part1
    /\ call.clef_type = "bass"
    /\ call.voice_position = None
    /\ call.pitch_range = <<40, 52>>
    /\ VOICE_RANGES = DefaultRanges
    /\ call.result = VoiceType_BASS

\* C14: with no name keyword and a stem position, the result is soprano
\* at position 1 and alto at position 2 on a treble or octave-treble clef,
\* tenor at position 1 and bass at position 2 on a bass clef, and tenor on
\* a tenor-C clef, whatever the pitch range.
C14_StemPositionDecides ==
    (Unnamed /\ call.voice_position # None)
    => /\ call.clef_type \in {"treble", "treble8vb"}
            => call.result = (IF call.voice_position = <<1>>
                              THEN VoiceType_SOPRANO ELSE VoiceType_ALTO)
       /\ call.clef_type = "bass"
            => call.result = (IF call.voice_position = <<1>>
                              THEN VoiceType_TENOR ELSE VoiceType_BASS)
       /\ call.clef_type = "tenor_c" => call.result = VoiceType_TENOR

\* "Part 1" at position 1 of a bass clef came out tenor, with the range
\* (60,81) of a soprano.
C14_Witness ==
    /\ call.done
    /\ call.part_name = N_Part1
    /\ call.clef_type = "bass"
    /\ call.voice_position = <<1>>
    /\ call.pitch_range = <<60, 81>>
    /\ call.result = VoiceType_TENOR

\* The score of category v for the range of the call, as a ratio: the width
\* of the overlap over the observed width plus one, 0 with no overlap.
OverlapScore(v) ==
    LET lo == max(call.pitch_range[1], VOICE_RANGES[v][1])
        hi == min(call.pitch_range[2], VOICE_RANGES[v][2])
    IN  << IF hi >= lo THEN hi - lo ELSE 0,
           call.pitch_range[2] - call.pitch_range[1] + 1 >>

\* The category with the highest score, the earliest of them in the order
\* soprano, alto, tenor, bass.
BestCategory ==
    VoiceOrder[CHOOSE i \in DOMAIN VoiceOrder :
                  /\ \A j \in DOMAIN VoiceOrder :
                        ~Gt(OverlapScore(VoiceOrder[j]), OverlapScore(VoiceOrder[i]))
                  /\ \A j \in 1..(i - 1) :
                        Gt(OverlapScore(VoiceOrder[i]), OverlapScore(VoiceOrder[j]))]

HalfThreshold == <<OVERLAP_THRESHOLD[1], 2 * OVERLAP_THRESHOLD[2]>>

\* The clef families: treble and octave-treble for soprano and alto, bass
\* and tenor-C for tenor and bass.
ClefFamilyAgrees(v, clef_type) ==
    \/ v \in {VoiceType_SOPRANO, VoiceType_ALTO} /\ clef_type \in {"treble", "treble8vb"}
    \/ v \in {VoiceType_TENOR, VoiceType_BASS} /\ clef_type \in {"bass", "tenor_c"}

\* The clef fallback table.
ClefFallback(clef_type) ==
    CASE clef_type = "treble"    -> VoiceType_SOPRANO
      [] clef_type = "treble8vb" -> VoiceType_TENOR
      [] clef_type = "bass"      -> VoiceType_BASS
      [] clef_type = "alto"      -> VoiceType_ALTO
      [] clef_type = "tenor_c"   -> VoiceType_TENOR
      [] clef_type = "unknown"   -> VoiceType_OTHER

\* C15: with no name keyword, no stem position and a pitch range, the
\* result is the best category when its score exceeds the threshold, or
\* exceeds half the threshold and the clef family agrees, and the clef
\* fallback in every other case, a score equal to the bound included.
C15_OverlapScoring ==
    (Unnamed /\ call.voice_position = None /\ call.pitch_range # None)
    => call.result =
          (IF Gt(OverlapScore(BestCategory), OVERLAP_THRESHOLD)
           THEN BestCategory
           ELSE IF Gt(OverlapScore(BestCategory), HalfThreshold)
                   /\ ClefFamilyAgrees(BestCategory, call.clef_type)
           THEN BestCategory
           ELSE ClefFallback(call.clef_type))

\* C16: with no name keyword, no stem position, and a pitch range that is
\* absent or whose best score is not accepted, the result is given by the
\* clef alone: treble soprano, octave treble tenor, bass bass, alto clef
\* alto, tenor-C tenor, unknown other.
C16_ClefFallback ==
    (/\ Unnamed
     /\ call.voice_position = None
     /\ OverlapLayer(call.clef_type, call.pitch_range) = None)
    => call.result = ClefFallback(call.clef_type)

\* "Part 1" on the octave treble clef with range (0,10), which meets no
\* configured range, came out tenor.
C16_Witness ==
    /\ call.done
    /\ call.part_name = N_Part1
    /\ call.clef_type = "treble8vb"
    /\ call.voice_position = None
    /\ call.pitch_range = <<0, 10>>
    /\ VOICE_RANGES = DefaultRanges
    /\ call.result = VoiceType_TENOR

(***************************************************************************)
(* The logical voices of a score: parts with other voice layouts than two  *)
(* voices numbered 1 and 2.                                                *)
(***************************************************************************)
\* Three voices on a staff; one voice sub-stream only; a voice whose id
\* int() rejects beside a numbered one; voices 5 and 2, in that order; two
\* measures with a different voice each.
Staff3 ==
    Part(None, None,
         << Measure(1, Clef("TrebleClef"),
                    << Voice(Field(1), Span(67, 79)), Voice(Field(2), Span(60, 72)),
                       Voice(Field(3), Span(55, 67)) >>, <<>>) >>)
StaffOneVoice ==
    Part(None, None,
         << Measure(1, Clef("TrebleClef"), << Voice(Field(1), Span(64, 79)) >>, <<>>) >>)
StaffBadId ==
    Part(None, None,
         << Measure(1, Clef("BassClef"),
                    << Voice(BadField, Span(50, 65)), Voice(Field(2), Span(41, 58)) >>,
                    <<>>) >>)
StaffUnordered ==
    Part(None, None,
         << Measure(1, Clef("BassClef"),
                    << Voice(Field(5), Span(41, 58)), Voice(Field(2), Span(50, 65)) >>,
                    <<>>) >>)
StaffSplit ==
    Part(None, None,
         << Measure(1, Clef("TrebleClef"), << Voice(Field(1), Span(64, 79)) >>, <<>>),
            Measure(2, <<>>, << Voice(Field(2), Span(57, 72)) >>, <<>>) >>)

TopologyParts ==
    { Staff3, StaffOneVoice, StaffBadId, StaffUnordered, StaffSplit,
      StaffSA, Tenor8vb, RestPart }

InitTopology ==
    /\ VOICE_RANGES = DefaultRanges
    /\ OVERLAP_THRESHOLD = DefaultEnv.VOICE_OVERLAP_THRESHOLD
    /\ score \in SeqsUpTo(TopologyParts, MaxParts)
    /\ call = NoCall
    /\ extracted = None
    /\ analysis = None
    /\ midi = None

NextTopology == Analyze \/ GenerateUnassigned

SpecTopology == InitTopology /\ [][NextTopology]_vars

(***************************************************************************)
(* Properties of the logical voices, checked under SpecTopology.           *)
(***************************************************************************)
\* The distinct numeric voice ids of a part.
DistinctIds(part) ==
    UNION { { m.voices[j].id.val : j \in { k \in DOMAIN m.voices : m.voices[k].id.num } } :
            m \in Range(Measures(part)) }

\* The k-th smallest element of a set of numbers.
Ranked(S, k) == CHOOSE x \in S : Cardinality({ y \in S : y < x }) = k - 1

\* The entries of the analysis for the part at position p of the score.
EntriesOf(p) == SelectSeq(analysis[1].parts, LAMBDA e : e.part_index = p - 1)

\* C17: for a part with two or more distinct voice ids the analysis has one
\* entry per id, in ascending order of the ids, and the stem position
\* passed to the classifier for each is 1 or 2, 1 for the first and 2 for
\* the second; for a part with zero or one distinct id it has exactly one
\* entry, with voice_id null.
C17_OneVoicePerIdentifier ==
    analysis # None =>
        \A p \in DOMAIN score :
            LET ids == DistinctIds(score[p])
            IN  IF Cardinality(ids) >= 2
                THEN /\ Len(EntriesOf(p)) = Cardinality(ids)
                     /\ \A k \in DOMAIN EntriesOf(p) :
                           /\ EntriesOf(p)[k].voice_id = <<Ranked(ids, k)>>
                           /\ EntriesOf(p)[k].voice_position \in {<<1>>, <<2>>}
                           /\ k \in {1, 2} => EntriesOf(p)[k].voice_position = <<k>>
                ELSE /\ Len(EntriesOf(p)) = 1
                     /\ EntriesOf(p)[1].voice_id = None

\* C18: the entries of an analysis carry the linear indices 0, 1, ... in
\* their order, which is part order and then ascending voice id, there are
\* total_parts of them, and the pair (part_index, voice_id) of the entry
\* with index i is the pair _build_voice_index_map holds under str(i).
C18_IndicesAddressSameVoice ==
    analysis # None =>
        LET parts == analysis[1].parts
            map   == _build_voice_index_map(score)
        IN  /\ analysis[1].total_parts = Len(parts)
            /\ Len(map) = Len(parts)
            /\ \A i \in DOMAIN parts :
                  /\ parts[i].index = i - 1
                  /\ map[int(str(parts[i].index)) + 1]
                       = [part_idx |-> parts[i].part_index,
                          voice_id |-> parts[i].voice_id]
            /\ \A i, j \in DOMAIN parts :
                  i < j =>
                      \/ parts[i].part_index < parts[j].part_index
                      \/ /\ parts[i].part_index = parts[j].part_index
                         /\ parts[i].voice_id[1] < parts[j].voice_id[1]

\* An analysis of a score of a three-voice staff before an open part: four
\* entries, the last of them the open part.
C18_Witness ==
    /\ analysis # None
    /\ score = <<Staff3, Tenor8vb>>
    /\ analysis[1].total_parts = 4
    /\ analysis[1].parts[3].voice_id = <<3>>
    /\ analysis[1].parts[4].index = 3
    /\ analysis[1].parts[4].part_index = 1
    /\ analysis[1].parts[4].voice_id = None
    /\ _build_voice_index_map(score)[4] = [part_idx |-> 1, voice_id |-> None]

(***************************************************************************)
(* Construction of a processor from the environment, as                    *)
(* create_temp_processor does for each request.                            *)
(***************************************************************************)
MaxFields == 3

\* What a comma-separated field of a range string may be: an integer, in
\* the MIDI range or not, or text int() rejects.
RangeFields == { Field(-1), Field(60), Field(81), Field(128), BadField }

RangeStrings == SeqsUpTo(RangeFields, MaxFields)

RangeParameters == {"SOPRANO_RANGE", "ALTO_RANGE", "TENOR_RANGE", "BASS_RANGE"}

\* MusicProcessor() with one of the range parameters set in the
\* environment.
Construct ==
    /\ ~call.done
    /\ \E param \in RangeParameters, range_str \in RangeStrings :
          LET env == [DefaultEnv EXCEPT ![param] = range_str]
          IN  /\ VOICE_RANGES' = InitRanges(env)
              /\ OVERLAP_THRESHOLD' = env.VOICE_OVERLAP_THRESHOLD
              /\ call' = [done |-> TRUE, param |-> param, range_str |-> range_str]
    /\ UNCHANGED <<score, extracted, analysis, midi>>

InitConfig ==
    /\ VOICE_RANGES = DefaultRanges
    /\ OVERLAP_THRESHOLD = DefaultEnv.VOICE_OVERLAP_THRESHOLD
    /\ score = <<>>
    /\ call = NoCall
    /\ extracted = None
    /\ analysis = None
    /\ midi = None

NextConfig == Construct

SpecConfig == InitConfig /\ [][NextConfig]_vars

(***************************************************************************)
(* Properties of the configuration, checked under SpecConfig.              *)
(***************************************************************************)
SoundRange(r) == 0 <= r[1] /\ r[1] <= r[2] /\ r[2] <= 127

ParameterOf(v) ==
    CASE v = VoiceType_SOPRANO -> "SOPRANO_RANGE"
      [] v = VoiceType_ALTO    -> "ALTO_RANGE"
      [] v = VoiceType_TENOR   -> "TENOR_RANGE"
      [] v = VoiceType_BASS    -> "BASS_RANGE"

\* C19: whatever the value of a range parameter, the range the processor
\* uses for each category is sound, 0 <= lo <= hi <= 127: the pair the
\* value gives when it is two integers that make a sound range, and the
\* default (0,127) when the value is malformed or out of range.
C19_ConfiguredRangeIsSound ==
    call.done =>
        \A v \in satb_voices :
            /\ SoundRange(VOICE_RANGES[v])
            /\ ParameterOf(v) = call.param =>
                  LET s == call.range_str
                  IN  IF Len(s) = 2 /\ s[1].num /\ s[2].num
                         /\ SoundRange(<<s[1].val, s[2].val>>)
                      THEN VOICE_RANGES[v] = <<s[1].val, s[2].val>>
                      ELSE Len(s) # 3 => VOICE_RANGES[v] = <<0, 127>>

(***************************************************************************)
(* A range inside a configured range, checked under SpecDetect.            *)
(***************************************************************************)
\* C24: with no name keyword, no stem position and clef unknown, a voice
\* whose pitch range lies inside the configured range of some category is
\* not classified "other", a voice of a single pitch included.
C24_InsideRangeIsNotOther ==
    (/\ Unnamed
     /\ call.voice_position = None
     /\ call.clef_type = "unknown"
     /\ call.pitch_range # None
     /\ \E v \in satb_voices : InsideConfigured(v))
    => call.result # VoiceType_OTHER

(***************************************************************************)
(* Scores whose parts carry display names: analysis and generation with    *)
(* no assignment.                                                          *)
(***************************************************************************)
Named(part, name) == [part EXCEPT !.partName = name]

PartNames == {None, N_Piano, N_Bass, N_SopranoAlto}

NamedParts == { Named(p, n) : p \in {StaffSA, StaffTB, Tenor8vb}, n \in PartNames }

InitNamed ==
    /\ VOICE_RANGES = DefaultRanges
    /\ OVERLAP_THRESHOLD = DefaultEnv.VOICE_OVERLAP_THRESHOLD
    /\ score \in SeqsUpTo(NamedParts, MaxParts)
    /\ call = NoCall
    /\ extracted = None
    /\ analysis = None
    /\ midi = None

NextNamed == Analyze \/ GenerateUnassigned

SpecNamed == InitNamed /\ [][NextNamed]_vars

(***************************************************************************)
(* Properties of named parts, checked under SpecNamed.                     *)
(***************************************************************************)
\* The category the pitch-overlap layer and the clef fallback give to the
\* stream of the i-th logical voice, as a set: empty for "other".
FromClefAndRange(i) ==
    LET part_stream == PartStream(score, _build_voice_index_map(score)[i]).part
        clef_type   == _detect_clef(part_stream)
        pitch_range == _analyze_pitch_range(part_stream, 0)
        overlap     == OverlapLayer(clef_type, pitch_range)
        category    == IF overlap # None THEN overlap[1] ELSE ClefFallback(clef_type)
    IN  {category} \ {VoiceType_OTHER}

\* C21: when generate_midi_files is given no assignment, the category under
\* which the fallback places each logical voice is the one its own clef and
\* pitch range give (pitch-overlap layer, then clef fallback), whatever the
\* name of its part.
C21_FallbackIgnoresName ==
    (midi # None /\ Generated.origin = "none" /\ ~Generated.result.raised)
    => \A i \in DOMAIN _build_voice_index_map(score) :
          Placement(Generated.result.voice_parts)[i] = FromClefAndRange(i)

\* C23: in the analysis, the two voices of a combined part with exactly two
\* voice ids are detected as soprano and alto on a treble clef and as tenor
\* and bass on a bass clef, whatever the name of the part.
C23_TwoVoicesDiffer ==
    analysis # None =>
        \A p \in DOMAIN score :
            (TwoVoices(score[p]) /\ _detect_clef(score[p]) \in {"treble", "bass"})
            => /\ Len(EntriesOf(p)) = 2
               /\ <<EntriesOf(p)[1].detected_voice, EntriesOf(p)[2].detected_voice>>
                    = IF _detect_clef(score[p]) = "treble"
                      THEN <<VoiceType_SOPRANO, VoiceType_ALTO>>
                      ELSE <<VoiceType_TENOR, VoiceType_BASS>>

(***************************************************************************)
(* process_pdf.  The file system, the PDF library, the Gemini client and   *)
(* the MusicXML parser are inputs of the call: what the path names, how    *)
(* many pages the document has, the text of the response (a sequence of    *)
(* tokens) and whether converter.parse accepts the file written.           *)
(***************************************************************************)
PDF_MAX_PAGES == 20

\* The names bound when the body of the try block runs: the parameters and
\* locals assigned before it, the module's globals and the builtins used.
BoundNames ==
    { "self", "pdf_path", "scale", "mat", "doc", "total_pages", "page_limit",
      "jpeg_pages", "page_num", "pix", "model_name",
      "os", "re", "logger", "fitz", "genai_types", "converter",
      "GENAI_CLIENT", "PDF_MAX_PAGES", "PDF_RENDER_DPI",
      "len", "min", "range", "open", "str" }

\* The names the expression assigned to page_note reads, by branch.
page_note_names(total_pages) ==
    IF total_pages <= PDF_MAX_PAGES
    THEN {"len", "images"}
    ELSE {"len", "images", "total_pages"}

\* Positions of a token in a text from position i on, and the first one.
Finds(text, token, i) == { k \in i..Len(text) : text[k] = token }

\* re.search(r"```(?:xml)?\s*([\s\S]*?)```", content): the tokens between
\* the first fence and the next one, as a one-element sequence, or None.
\* The token "fence" stands for three backquotes with what the pattern lets
\* follow or precede them.
fence_match(content) ==
    LET opens == Finds(content, "fence", 1)
    IN  IF opens = {} THEN None
        ELSE LET open   == SetMin(opens)
                 closes == Finds(content, "fence", open + 1)
             IN  IF closes = {} THEN None
                 ELSE << SubSeq(content, open + 1, SetMin(closes) - 1) >>

startswith(content, token) == Len(content) > 0 /\ content[1] = token

\* content.find(token): the 1-based position, 0 for not found.
find(content, token) ==
    IF Finds(content, token, 1) = {} THEN 0 ELSE SetMin(Finds(content, token, 1))

\* The text written to the output file for a response text, None when the
\* code raises ValueError for want of an XML start tag.
XmlContent(text) ==
    LET content == IF fence_match(text) # None THEN fence_match(text)[1] ELSE text
    IN  IF startswith(content, "<?xml") \/ startswith(content, "<score-partwise")
        THEN << content >>
        ELSE LET start_idx == IF find(content, "<?xml") # 0
                              THEN find(content, "<?xml")
                              ELSE find(content, "<score-partwise")
             IN  IF start_idx # 0
                 THEN << SubSeq(content, start_idx, Len(content)) >>
                 ELSE None

Raised(error, message) ==
    [raised |-> TRUE, error |-> error, message |-> message,
     path |-> None, written |-> None]

\* The body of the try block: an exception raised in it, or the path
\* returned.
TryBody(pdf) ==
    IF ~(page_note_names(pdf.total_pages) \subseteq BoundNames)
    THEN Raised("NameError", "name 'images' is not defined")
    ELSE IF XmlContent(pdf.response) = None
    THEN Raised("ValueError", "Gemini did not return valid XML start tag")
    ELSE IF ~pdf.parser_accepts
    THEN [ Raised("RuntimeError", "Generated MusicXML is invalid")
             EXCEPT !.written = XmlContent(pdf.response) ]
    ELSE [raised |-> FALSE, error |-> "", message |-> "",
          path |-> << <<"temp_dir", "score.musicxml">> >>,
          written |-> XmlContent(pdf.response)]

process_pdf(pdf) ==
    IF ~pdf.exists THEN Raised("ValueError", "PDF file not found")
    ELSE IF ~pdf.isfile THEN Raised("ValueError", "Path is not a file")
    ELSE IF ~pdf.pdf_suffix THEN Raised("ValueError", "File must be a PDF")
    ELSE IF ~pdf.client THEN Raised("RuntimeError", "GEMINI_API_KEY is not set")
    ELSE IF pdf.total_pages = 0
    THEN Raised("ValueError", "Could not extract pages from PDF")
    ELSE LET body == TryBody(pdf)
         IN  IF body.raised
             THEN [ Raised("RuntimeError", "OMR processing failed")
                      EXCEPT !.written = body.written ]
             ELSE body

PageCounts == {0, 1, PDF_MAX_PAGES, PDF_MAX_PAGES + 1}

Responses ==
    { << "<?xml", "<score-partwise" >>,
      << "<score-partwise" >>,
      << "fence", "<?xml", "<score-partwise", "fence" >>,
      << "prose", "<?xml", "<score-partwise" >>,
      << "prose", "fence", "prose", "<score-partwise", "fence", "prose" >>,
      << "prose" >>,
      << >> }

PdfInputs ==
    [exists : BOOLEAN, isfile : BOOLEAN, pdf_suffix : BOOLEAN, client : BOOLEAN,
     total_pages : PageCounts, response : Responses, parser_accepts : BOOLEAN]

ProcessPdf ==
    /\ ~call.done
    /\ \E pdf \in PdfInputs :
          call' = [done |-> TRUE, pdf |-> pdf, result |-> process_pdf(pdf)]
    /\ UNCHANGED <<VOICE_RANGES, OVERLAP_THRESHOLD, score, extracted, analysis, midi>>

InitPdf ==
    /\ VOICE_RANGES = DefaultRanges
    /\ OVERLAP_THRESHOLD = DefaultEnv.VOICE_OVERLAP_THRESHOLD
    /\ score = <<>>
    /\ call = NoCall
    /\ extracted = None
    /\ analysis = None
    /\ midi = None

NextPdf == ProcessPdf

SpecPdf == InitPdf /\ [][NextPdf]_vars

(***************************************************************************)
(* Properties of process_pdf, checked under SpecPdf.                       *)
(***************************************************************************)
\* An existing .pdf file of at least one page, a configured client, and a
\* response holding an XML start tag that the parser accepts.
PdfPreconditions ==
    /\ call.pdf.exists /\ call.pdf.isfile /\ call.pdf.pdf_suffix
    /\ call.pdf.total_pages >= 1
    /\ call.pdf.client
    /\ \E k \in DOMAIN call.pdf.response :
          call.pdf.response[k] \in {"<?xml", "<score-partwise"}
    /\ call.pdf.parser_accepts

\* C22: a call of process_pdf whose preconditions hold writes the MusicXML
\* of the response to score.musicxml in the temp directory and returns that
\* path, and a call raises only when a precondition fails.
C22_ReturnsPathWhenPreconditionsHold ==
    call.done =>
        /\ PdfPreconditions =>
              /\ ~call.result.raised
              /\ call.result.path = << <<"temp_dir", "score.musicxml">> >>
              /\ call.result.written # None
              /\ call.result.written[1][1] \in {"<?xml", "<score-partwise"}
        /\ call.result.raised => ~PdfPreconditions

====
